---- MODULE Spec2Model ----
(***************************************************************************)
(* Model of actix-files' NamedFile (src/actix-files/src/named.rs): the     *)
(* configuration setters of a NamedFile and the decision procedure         *)
(* NamedFile::into_response, which turns a file, its configuration and a   *)
(* request's conditional / range headers into a response (status, headers, *)
(* body window).                                                           *)
(***************************************************************************)
EXTENDS Integers, Sequences, FiniteSets

VARIABLES file, req, resp, locals, pc

vars == <<file, req, resp, locals, pc>>

(***************************************************************************)
(* Bounds of the model.                                                    *)
(***************************************************************************)
\* file lengths are 0..MaxLen
MaxLen == 2
\* modification times and header dates are whole seconds in 1..MaxSecs
MaxSecs == 2
\* width of the machine word that stands for u64 in the model
WordBits == 8

(***************************************************************************)
(* Program constants.                                                      *)
(***************************************************************************)
OK == 200
PARTIAL_CONTENT == 206
NOT_MODIFIED == 304
BAD_REQUEST == 400
PRECONDITION_FAILED == 412
RANGE_NOT_SATISFIABLE == 416

\* Flags (bitflags!, lines 29-36); a Flags value is the set of bits set
ETAG == "ETAG"
LAST_MD == "LAST_MD"
CONTENT_DISPOSITION == "CONTENT_DISPOSITION"
PREFER_UTF8 == "PREFER_UTF8"

\* impl Default for Flags: 0b0000_0111
Flags_default == {ETAG, LAST_MD, CONTENT_DISPOSITION}

\* Option<T>: None is the empty sequence, Some(x) is <<x>>
None == <<>>
Some(x) == <<x>>
is_some(o) == o # <<>>
unwrap(o) == o[1]

\* u64 arithmetic: 2^WordBits stands for 2^64
Modulus == 2 ^ WordBits

(***************************************************************************)
(* Entity tags.                                                            *)
(***************************************************************************)
HexDigits == <<"0", "1", "2", "3", "4", "5", "6", "7",
               "8", "9", "a", "b", "c", "d", "e", "f">>

\* format!("{:x}", n): the lower-case hexadecimal digits of n
RECURSIVE LowerHex(_)
LowerHex(n) ==
    IF n < 16 THEN <<HexDigits[n + 1]>>
    ELSE LowerHex(n \div 16) \o <<HexDigits[(n % 16) + 1]>>

\* header::EntityTag::strong(tag) / EntityTag::weak(tag)
EntityTag_strong(tag) == [weak |-> FALSE, tag |-> tag]
EntityTag_weak(tag) == [weak |-> TRUE, tag |-> tag]

\* EntityTag::strong_eq: both strong and the opaque tags identical
strong_eq(a, b) == ~a.weak /\ ~b.weak /\ a.tag = b.tag

\* EntityTag::weak_eq: the opaque tags identical, weakness ignored
weak_eq(a, b) == a.tag = b.tag

\* the text of format!("{:x}:{:x}:{:x}:{:x}", ino, len, secs, nanos)
etag_format(ino, len, secs, nanos) ==
    LowerHex(ino) \o <<":">> \o LowerHex(len) \o <<":">>
        \o LowerHex(secs) \o <<":">> \o LowerHex(nanos)

\* NamedFile::etag (lines 273-299)
etag(self) ==
    IF is_some(self.modified)
    THEN Some(EntityTag_strong(etag_format(self.md.ino, self.md.len,
                  unwrap(self.modified).secs, unwrap(self.modified).nanos)))
    ELSE None

\* HttpDate from SystemTime: the time in whole seconds
HttpDate_from(mtime) == [secs |-> mtime.secs]

\* NamedFile::last_modified (lines 301-303)
last_modified(self) ==
    IF is_some(self.modified) THEN Some(HttpDate_from(unwrap(self.modified)))
    ELSE None

(***************************************************************************)
(* The request headers into_response reads.                                *)
(*   if_match, if_none_match : [kind, items], kind one of "absent",        *)
(*       "malformed" (present, but not a tag list), "any" (`*`), "items"   *)
(*   if_unmodified_since, if_modified_since : Option<HttpDate>             *)
(*   range : [kind, ranges], kind one of "absent", "nottext" (bytes that   *)
(*       are not header text), "text"                                      *)
(***************************************************************************)

\* req.get_header::<IfMatch>() / <IfNoneMatch>(): None unless the header is
\* present and parses
get_header_tags(h) ==
    IF h.kind \in {"any", "items"} THEN Some(h) ELSE None

\* req.headers().contains_key(name)
contains_key(h) == h.kind # "absent"

any_match_weak(etag_opt, request) ==
    LET h == get_header_tags(request.if_match) IN
    IF ~is_some(h) \/ unwrap(h).kind = "any" THEN TRUE
    ELSE /\ is_some(etag_opt)
         /\ \E i \in DOMAIN unwrap(h).items :
                weak_eq(unwrap(h).items[i], unwrap(etag_opt))

\* any_match (lines 466-483)
any_match(etag_opt, request) ==
    LET h == get_header_tags(request.if_match) IN
    IF ~is_some(h) \/ unwrap(h).kind = "any" THEN TRUE
    ELSE /\ is_some(etag_opt)
         /\ \E i \in DOMAIN unwrap(h).items :
                strong_eq(unwrap(h).items[i], unwrap(etag_opt))

none_match_star_passes(etag_opt, request) ==
    LET h == get_header_tags(request.if_none_match) IN
    IF ~is_some(h) THEN TRUE
    ELSE IF unwrap(h).kind = "any" THEN TRUE
    ELSE ~ (/\ is_some(etag_opt)
            /\ \E i \in DOMAIN unwrap(h).items :
                   weak_eq(unwrap(h).items[i], unwrap(etag_opt)))

\* none_match (lines 486-504)
none_match(etag_opt, request) ==
    LET h == get_header_tags(request.if_none_match) IN
    IF ~is_some(h) THEN TRUE
    ELSE IF unwrap(h).kind = "any" THEN FALSE
    ELSE ~ (/\ is_some(etag_opt)
            /\ \E i \in DOMAIN unwrap(h).items :
                   weak_eq(unwrap(h).items[i], unwrap(etag_opt)))

use_etag_flag_ignored(self) == etag(self)

\* let etag = if self.flags.contains(Flags::ETAG) ... (lines 333-337)
gated_etag(self) ==
    IF ETAG \in self.flags THEN etag(self) ELSE None

\* let last_modified = if self.flags.contains(Flags::LAST_MD) ... (lines 339-343)
gated_last_modified(self) ==
    IF LAST_MD \in self.flags THEN last_modified(self) ELSE None

\* let precondition_failed = ... (lines 345-360); both times are at or after
\* the epoch, so both duration_since calls are Ok
precondition_failed(etag_opt, lm, request) ==
    IF ~any_match(etag_opt, request) THEN TRUE
    ELSE IF is_some(lm) /\ is_some(request.if_unmodified_since)
    THEN unwrap(lm).secs > unwrap(request.if_unmodified_since).secs
    ELSE FALSE

not_modified_since_first(etag_opt, lm, request) ==
    IF ~none_match(etag_opt, request) THEN TRUE
    ELSE IF is_some(lm) /\ is_some(request.if_modified_since)
    THEN unwrap(lm).secs <= unwrap(request.if_modified_since).secs
    ELSE FALSE

\* let not_modified = ... (lines 362-379)
not_modified(etag_opt, lm, request) ==
    IF ~none_match(etag_opt, request) THEN TRUE
    ELSE IF contains_key(request.if_none_match) THEN FALSE
    ELSE IF is_some(lm) /\ is_some(request.if_modified_since)
    THEN unwrap(lm).secs <= unwrap(request.if_modified_since).secs
    ELSE FALSE

(***************************************************************************)
(* Range header.                                                           *)
(***************************************************************************)
HttpRange(start, length) == [start |-> start, length |-> length]

\* HttpRange::parse(header, size) (crate::range): Err unless the header names
\* a satisfiable range; the ranges of an Ok all have start + length <= size
HttpRange_parse(ranges_header, size) ==
    LET fits(r) == r.start + r.length <= size
        parsed == SelectSeq(ranges_header, fits)
    IN  IF parsed = <<>> THEN [ok |-> FALSE, ranges |-> <<>>]
        ELSE [ok |-> TRUE, ranges |-> parsed]

\* a - b on u64: None where the build checks overflow and the difference
\* is negative (a panic), the wrapped difference where it does not
u64_sub(a, b, overflow_checks) ==
    IF a >= b THEN Some(a - b)
    ELSE IF overflow_checks THEN None
    ELSE Some((a - b + Modulus) % Modulus)

(***************************************************************************)
(* The response under construction (HttpResponseBuilder) and the response. *)
(***************************************************************************)
NoHeaders ==
    [content_type |-> None, content_disposition |-> None,
     last_modified |-> None, etag |-> None, accept_ranges |-> None,
     content_range |-> None]

\* HttpResponse::build(status) (lines 308, 381)
HttpResponse_build(status) ==
    [kind |-> "response", status |-> status, headers |-> NoHeaders,
     encoding |-> None, body |-> None]

\* resp.insert_header((name, value)) (lines 385-428)
insert_header(res, name, value) ==
    [res EXCEPT !.headers[name] = Some(value)]

\* resp.encoding(enc) (lines 325, 399, 422)
set_encoding(res, enc) == [res EXCEPT !.encoding = Some(enc)]

\* resp.status(status).finish() (lines 429, 432, 437, 439): the response
\* built so far, with that status and no body
finish(res, status) == [res EXCEPT !.status = status, !.body = None]

\* resp.status(status) (line 445)
set_status(res, status) == [res EXCEPT !.status = status]

\* ChunkedReadFile::new(length, offset, file) handed to streaming / body
\* (lines 328-330, 442-448): length bytes of the file from offset
stream_body(res, length, offset) ==
    [res EXCEPT !.body = Some([length |-> length, offset |-> offset])]

\* a panic inside into_response: there is no response
Panicked ==
    [kind |-> "panic", status |-> 0, headers |-> NoHeaders,
     encoding |-> None, body |-> None]

\* equiv_utf8_text(ct) (crate::encoding): a textual type gets charset=utf-8
equiv_utf8_text(ct) ==
    IF ct.type = "text" THEN [ct EXCEPT !.charset = "utf-8"] ELSE ct

\* Content-Type, Content-Disposition and the content encoding, written alike
\* on both paths (lines 310-326 and 383-400)
content_headers(self, res) ==
    LET ct == IF PREFER_UTF8 \in self.flags
              THEN equiv_utf8_text(self.content_type)
              ELSE self.content_type
        r1 == insert_header(res, "content_type", ct)
        r2 == IF CONTENT_DISPOSITION \in self.flags
              THEN insert_header(r1, "content_disposition",
                                 self.content_disposition)
              ELSE r1
    IN  IF is_some(self.encoding)
        THEN set_encoding(r2, unwrap(self.encoding))
        ELSE r2

status_override_ignored(self) == FALSE

\* if self.status_code != StatusCode::OK (line 307)
status_overridden(self) == self.status_code # OK

\* the body of that if (lines 308-330)
override_response(self) ==
    stream_body(content_headers(self, HttpResponse_build(self.status_code)),
                self.md.len, 0)

\* lines 381-410: the headers written before the Range header is read
base_response(self, etag_opt, lm) ==
    LET r1 == content_headers(self, HttpResponse_build(self.status_code))
        r2 == IF is_some(lm)
              THEN insert_header(r1, "last_modified", unwrap(lm))
              ELSE r1
        r3 == IF is_some(etag_opt)
              THEN insert_header(r2, "etag", unwrap(etag_opt))
              ELSE r2
    IN  insert_header(r3, "accept_ranges", "bytes")

\* format!("bytes {}-{}/{}", first, last, total) and format!("bytes */{}", total)
content_range(range_opt, total) ==
    [unit |-> "bytes", range |-> range_opt, complete_length |-> total]

\* what the Range block hands on: "return" with the response returned early,
\* "panic", or "continue" with the builder and the window to stream
RangeStep(outcome, res, length, offset) ==
    [outcome |-> outcome, resp |-> res, length |-> length, offset |-> offset]

evaluate_range_errors_deferred(self, request, res, overflow_checks) ==
    LET total == self.md.len IN
    IF request.range.kind = "absent" THEN RangeStep("continue", res, total, 0)
    ELSE IF request.range.kind = "nottext"
    THEN RangeStep("continue", set_status(res, BAD_REQUEST), total, 0)
    ELSE LET parsed == HttpRange_parse(request.range.ranges, total) IN
         IF ~parsed.ok
         THEN RangeStep("continue",
                  set_status(insert_header(res, "content_range",
                                 content_range(None, total)),
                             RANGE_NOT_SATISFIABLE),
                  total, 0)
         ELSE LET length == parsed.ranges[1].length
                  offset == parsed.ranges[1].start
                  last == u64_sub(offset + length, 1, overflow_checks)
              IN  IF ~is_some(last) THEN RangeStep("panic", res, length, offset)
                  ELSE RangeStep("continue",
                           insert_header(set_encoding(res, "identity"),
                               "content_range",
                               content_range(Some(<<offset, unwrap(last)>>),
                                             total)),
                           length, offset)

evaluate_range_fresh_error(self, request, res, overflow_checks) ==
    LET total == self.md.len IN
    IF request.range.kind = "absent" THEN RangeStep("continue", res, total, 0)
    ELSE IF request.range.kind = "nottext"
    THEN RangeStep("return", HttpResponse_build(BAD_REQUEST), total, 0)
    ELSE LET parsed == HttpRange_parse(request.range.ranges, total) IN
         IF ~parsed.ok
         THEN RangeStep("return",
                  insert_header(HttpResponse_build(RANGE_NOT_SATISFIABLE),
                      "content_range", content_range(None, total)),
                  total, 0)
         ELSE LET length == parsed.ranges[1].length
                  offset == parsed.ranges[1].start
                  last == u64_sub(offset + length, 1, overflow_checks)
              IN  IF ~is_some(last) THEN RangeStep("panic", res, length, offset)
                  ELSE RangeStep("continue",
                           insert_header(set_encoding(res, "identity"),
                               "content_range",
                               content_range(Some(<<offset, unwrap(last)>>),
                                             total)),
                           length, offset)

\* lines 412-434: let mut length, offset; // check for range header
evaluate_range(self, request, res, overflow_checks) ==
    LET total == self.md.len IN
    IF request.range.kind = "absent" THEN RangeStep("continue", res, total, 0)
    ELSE IF request.range.kind = "nottext"
    THEN RangeStep("return", finish(res, BAD_REQUEST), total, 0)
    ELSE LET parsed == HttpRange_parse(request.range.ranges, total) IN
         IF ~parsed.ok
         THEN RangeStep("return",
                  finish(insert_header(res, "content_range",
                             content_range(None, total)),
                         RANGE_NOT_SATISFIABLE),
                  total, 0)
         ELSE LET length == parsed.ranges[1].length
                  offset == parsed.ranges[1].start
                  last == u64_sub(offset + length, 1, overflow_checks)
              IN  IF ~is_some(last) THEN RangeStep("panic", res, length, offset)
                  ELSE RangeStep("continue",
                           insert_header(set_encoding(res, "identity"),
                               "content_range",
                               content_range(Some(<<offset, unwrap(last)>>),
                                             total)),
                           length, offset)

\* lines 436-448: the short circuits, then the body
conclude(self, res, length, offset, failed, unchanged) ==
    IF failed THEN finish(res, PRECONDITION_FAILED)
    ELSE IF unchanged THEN finish(res, NOT_MODIFIED)
    ELSE LET r == IF offset # 0 \/ length # self.md.len
                  THEN set_status(res, PARTIAL_CONTENT)
                  ELSE res
         IN  stream_body(r, length, offset)

\* the locals of into_response that the claims speak of
Locals(self, request) ==
    LET e == gated_etag(self)
        lm == gated_last_modified(self)
    IN  [etag |-> e, last_modified |-> lm,
         precondition_failed |-> precondition_failed(e, lm, request),
         not_modified |-> not_modified(e, lm, request)]

\* NamedFile::into_response (lines 306-449)
into_response(self, request, overflow_checks) ==
    IF status_overridden(self) THEN override_response(self)
    ELSE LET l == Locals(self, request)
             step == evaluate_range(self, request,
                         base_response(self, l.etag, l.last_modified),
                         overflow_checks)
         IN  IF step.outcome = "panic" THEN Panicked
             ELSE IF step.outcome = "return" THEN step.resp
             ELSE conclude(self, step.resp, step.length, step.offset,
                           l.precondition_failed, l.not_modified)

(***************************************************************************)
(* Inputs: file metadata, configuration values and requests.               *)
(***************************************************************************)
\* subsecond nanoseconds of a modification time
SubsecNanos == {500}

\* Metadata::modified().ok(): a time after the epoch, or None
ModifiedTimes ==
    {None} \cup {Some([secs |-> s, nanos |-> n]) :
                     s \in 1..MaxSecs, n \in SubsecNanos}

Metadatas == [len : 0..MaxLen, ino : {1}]

TextPlain == [type |-> "text", subtype |-> "plain", charset |-> ""]

\* the status codes handed to set_status_code
StatusCodes == {OK, 404}

\* the encodings handed to set_content_encoding
ContentEncodings == {"gzip"}

\* the tag the file has, or would have with a modification time
own_tag(self) ==
    IF is_some(self.modified) THEN unwrap(etag(self)).tag
    ELSE etag_format(self.md.ino, self.md.len, 0, 0)

\* a tag no file has
OtherTag == <<"0">>

Absent == [kind |-> "absent", items |-> <<>>]
Malformed == [kind |-> "malformed", items |-> <<>>]
Star == [kind |-> "any", items |-> <<>>]
Items(tags) == [kind |-> "items", items |-> tags]

IfMatchHeaders(self) ==
    {Absent, Star,
     Items(<<EntityTag_weak(own_tag(self))>>),
     Items(<<EntityTag_strong(OtherTag), EntityTag_strong(own_tag(self))>>)}

IfNoneMatchHeaders(self) ==
    {Absent, Star, Malformed,
     Items(<<EntityTag_strong(OtherTag)>>),
     Items(<<EntityTag_strong(OtherTag), EntityTag_weak(own_tag(self))>>)}

\* an If-Unmodified-Since / If-Modified-Since header: absent, or a date
DateHeaders == {None} \cup {Some([secs |-> s]) : s \in 1..MaxSecs}

\* the ranges a Range header can name
RangeSpecs ==
    {r \in [start : 0..MaxLen, length : 0..MaxLen] :
        r.start + r.length <= MaxLen}
    \cup {HttpRange(MaxLen, 1)}

RangeHeaders ==
    {[kind |-> "absent", ranges |-> <<>>],
     [kind |-> "nottext", ranges |-> <<>>]}
    \cup {[kind |-> "text", ranges |-> <<r>>] : r \in RangeSpecs}
    \cup {[kind |-> "text", ranges |-> <<HttpRange(MaxLen, 1), r>>] :
              r \in {HttpRange(0, 1), HttpRange(1, 0)}}

Requests(self) ==
    [if_match : IfMatchHeaders(self),
     if_none_match : IfNoneMatchHeaders(self),
     if_unmodified_since : DateHeaders,
     if_modified_since : DateHeaders,
     range : RangeHeaders]

NoRequest ==
    [if_match |-> Absent, if_none_match |-> Absent,
     if_unmodified_since |-> None, if_modified_since |-> None,
     range |-> [kind |-> "absent", ranges |-> <<>>]]

NoLocals ==
    [etag |-> None, last_modified |-> None,
     precondition_failed |-> FALSE, not_modified |-> FALSE]

(***************************************************************************)
(* NamedFile: construction and configuration.                              *)
(***************************************************************************)
\* NamedFile::from_file (lines 103-160), for a path named foo.txt: the
\* guessed type is text/plain, so the disposition is inline
from_file(md, modified) ==
    [md |-> md, modified |-> modified,
     content_type |-> TextPlain,
     content_disposition |-> [disposition |-> "inline",
                              filename |-> "foo.txt"],
     encoding |-> None,
     status_code |-> OK,
     flags |-> Flags_default]

\* Flags::set(flag, value)
flags_set(flags, flag, value) ==
    IF value THEN flags \cup {flag} ELSE flags \ {flag}

\* no NamedFile is open: the service is registered and handlers are idle
NoFile == from_file([len |-> 0, ino |-> 1], None)

Init ==
    /\ file = NoFile
    /\ req = NoRequest
    /\ resp = None
    /\ locals = NoLocals
    /\ pc = "idle"

\* NamedFile::open / from_file in a handler (lines 103-173)
open ==
    /\ pc = "idle"
    /\ \E md \in Metadatas, m \in ModifiedTimes : file' = from_file(md, m)
    /\ pc' = "built"
    /\ UNCHANGED <<req, resp, locals>>

\* NamedFile::set_status_code (lines 200-204)
set_status_code ==
    /\ pc = "built"
    /\ \E status \in StatusCodes : file' = [file EXCEPT !.status_code = status]
    /\ UNCHANGED <<req, resp, locals, pc>>

\* NamedFile::disable_content_disposition (lines 228-235)
disable_content_disposition ==
    /\ pc = "built"
    /\ file' = [file EXCEPT !.flags = @ \ {CONTENT_DISPOSITION}]
    /\ UNCHANGED <<req, resp, locals, pc>>

\* NamedFile::set_content_encoding (lines 237-244)
set_content_encoding ==
    /\ pc = "built"
    /\ \E enc \in ContentEncodings : file' = [file EXCEPT !.encoding = Some(enc)]
    /\ UNCHANGED <<req, resp, locals, pc>>

\* NamedFile::use_etag (lines 246-253)
use_etag ==
    /\ pc = "built"
    /\ \E value \in BOOLEAN :
           file' = [file EXCEPT !.flags = flags_set(@, ETAG, value)]
    /\ UNCHANGED <<req, resp, locals, pc>>

\* NamedFile::use_last_modified (lines 255-262)
use_last_modified ==
    /\ pc = "built"
    /\ \E value \in BOOLEAN :
           file' = [file EXCEPT !.flags = flags_set(@, LAST_MD, value)]
    /\ UNCHANGED <<req, resp, locals, pc>>

\* Responder::respond_to (lines 506-510): self.into_response(req), in a build
\* with or without overflow checks
respond_to ==
    /\ pc = "built"
    /\ \E request \in Requests(file), overflow_checks \in BOOLEAN :
           /\ req' = request
           /\ resp' = Some(into_response(file, request, overflow_checks))
           /\ locals' = IF status_overridden(file) THEN NoLocals
                        ELSE Locals(file, request)
    /\ pc' = "responded"
    /\ UNCHANGED file

\* NamedFileService::call (lines 540-548): open the path, then into_response
call ==
    /\ pc = "idle"
    /\ \E md \in Metadatas, m \in ModifiedTimes :
         LET f == from_file(md, m) IN
         /\ file' = f
         /\ \E request \in Requests(f), overflow_checks \in BOOLEAN :
                /\ req' = request
                /\ resp' = Some(into_response(f, request, overflow_checks))
                /\ locals' = Locals(f, request)
    /\ pc' = "responded"

\* the response is sent; into_response consumed the NamedFile
sent ==
    /\ pc = "responded"
    /\ pc' = "idle"
    /\ file' = NoFile
    /\ req' = NoRequest
    /\ resp' = None
    /\ locals' = NoLocals

Next ==
    \/ open
    \/ set_status_code
    \/ disable_content_disposition
    \/ set_content_encoding
    \/ use_etag
    \/ use_last_modified
    \/ respond_to
    \/ call
    \/ sent

Spec == Init /\ [][Next]_vars

(***************************************************************************)
(* Vocabulary of the properties.                                           *)
(***************************************************************************)
Responded == pc = "responded"
R == unwrap(resp)
DefaultStatus == file.status_code = OK

\* the validators as the configuration and the metadata give them
HasEtag == ETAG \in file.flags /\ is_some(file.modified)
HasLastModified == LAST_MD \in file.flags /\ is_some(file.modified)
ModifiedSecs == unwrap(file.modified).secs

RangeAbsent == req.range.kind = "absent"
RangeNotText == req.range.kind = "nottext"
RangeParsed ==
    req.range.kind = "text" /\ HttpRange_parse(req.range.ranges, file.md.len).ok
RangeUnsatisfiable ==
    req.range.kind = "text" /\ ~HttpRange_parse(req.range.ranges, file.md.len).ok
FirstRange == HttpRange_parse(req.range.ranges, file.md.len).ranges[1]

NoBody == R.body = None
Streams(length, offset) ==
    R.body = Some([length |-> length, offset |-> offset])
\* a response without body and with this status
Bodiless(status) == R.kind = "response" /\ R.status = status /\ NoBody

\* the response to req without its If-Modified-Since header / without both
\* date headers, in the same build
WithoutModifiedSince == [req EXCEPT !.if_modified_since = None]
WithoutDates ==
    [req EXCEPT !.if_modified_since = None, !.if_unmodified_since = None]
SameResponseFor(request) ==
    \A overflow_checks \in BOOLEAN :
        R = into_response(file, req, overflow_checks)
            => into_response(file, request, overflow_checks) = R

\* the headers and encoding written before the Range header is read
WrittenHeaders ==
    [content_type |-> Some(file.content_type),
     content_disposition |->
         IF CONTENT_DISPOSITION \in file.flags
         THEN Some(file.content_disposition) ELSE None,
     last_modified |->
         IF HasLastModified THEN Some([secs |-> ModifiedSecs]) ELSE None,
     etag |->
         IF HasEtag THEN Some(EntityTag_strong(own_tag(file))) ELSE None,
     accept_ranges |-> Some("bytes"),
     content_range |-> None]

(***************************************************************************)
(* C1.  With the default status and a Range header that is absent or       *)
(* parses, the outcome follows a fixed precedence: 412 without body if the *)
(* precondition check failed, else 304 without body if the not-modified    *)
(* check holds, else a streamed body with status 200 or 206.               *)
(***************************************************************************)
C1_Precedence ==
    (Responded /\ DefaultStatus /\ (RangeAbsent \/ RangeParsed)) =>
        IF locals.precondition_failed THEN Bodiless(PRECONDITION_FAILED)
        ELSE IF locals.not_modified THEN Bodiless(NOT_MODIFIED)
        ELSE R.kind = "response" /\ R.status \in {OK, PARTIAL_CONTENT} /\ ~NoBody

(***************************************************************************)
(* C2 as claimed.  A request with If-None-Match: * never gets a            *)
(* not-modified response (304 without body).                               *)
(***************************************************************************)
C2_StarNeverNotModified ==
    (Responded /\ req.if_none_match = Star) => ~Bodiless(NOT_MODIFIED)

(***************************************************************************)
(* C2 as amended.  With the default status, If-None-Match: * always makes  *)
(* the not-modified check hold: no body is ever streamed, and the response *)
(* is 304 whenever the precondition check passed and there is no Range     *)
(* header.                                                                 *)
(***************************************************************************)
C2_StarIsNotModified ==
    (Responded /\ DefaultStatus /\ req.if_none_match = Star) =>
        /\ locals.not_modified
        /\ NoBody
        /\ (RangeAbsent /\ ~locals.precondition_failed) => Bodiless(NOT_MODIFIED)

C2_Witness ==
    /\ Responded /\ DefaultStatus /\ req.if_none_match = Star
    /\ is_some(file.modified)
    /\ req.if_match = Absent /\ RangeAbsent
    /\ Bodiless(NOT_MODIFIED)

(***************************************************************************)
(* C3.  When an If-None-Match header is present the response does not      *)
(* depend on If-Modified-Since; when it is absent and If-Modified-Since    *)
(* and a last-modified validator are present, not-modified holds iff the   *)
(* file's modification time in seconds is at most the header's.            *)
(***************************************************************************)
C3_ModifiedSinceIgnored ==
    /\ (Responded /\ contains_key(req.if_none_match))
           => SameResponseFor(WithoutModifiedSince)
    /\ (Responded /\ DefaultStatus /\ ~contains_key(req.if_none_match)
            /\ is_some(req.if_modified_since) /\ HasLastModified)
           => (locals.not_modified
                   <=> ModifiedSecs <= unwrap(req.if_modified_since).secs)

C3_Witness ==
    /\ Responded /\ DefaultStatus /\ HasEtag /\ HasLastModified
    /\ req.if_none_match = Items(<<EntityTag_strong(OtherTag)>>)
    /\ is_some(req.if_modified_since)
    /\ ModifiedSecs <= unwrap(req.if_modified_since).secs
    /\ req.if_match = Absent /\ RangeAbsent
    /\ R.status = OK /\ ~NoBody

(***************************************************************************)
(* C4.  With the default status, a Range header that names no satisfiable  *)
(* range gets 416 with Content-Range bytes * / total and no body, and one  *)
(* that is not header text gets 400 and no body, whatever the precondition *)
(* and not-modified checks found.                                          *)
(***************************************************************************)
C4_RangeErrorsWin ==
    /\ (Responded /\ DefaultStatus /\ RangeUnsatisfiable) =>
           /\ Bodiless(RANGE_NOT_SATISFIABLE)
           /\ R.headers.content_range = Some(content_range(None, file.md.len))
    /\ (Responded /\ DefaultStatus /\ RangeNotText) => Bodiless(BAD_REQUEST)

C4_Witness ==
    /\ Responded /\ DefaultStatus /\ RangeUnsatisfiable
    /\ locals.precondition_failed
    /\ Bodiless(RANGE_NOT_SATISFIABLE)

(***************************************************************************)
(* C5.  With the default status and neither short circuit, a parsed Range  *)
(* header streams the first range's window, writes Content-Range           *)
(* bytes start-(start+length-1)/total, forces the identity encoding, and   *)
(* the status is 206 iff the window is not the whole file; without a Range *)
(* header the window is the whole file and the status 200.                 *)
(***************************************************************************)
C5_Window ==
    (Responded /\ DefaultStatus
        /\ ~locals.precondition_failed /\ ~locals.not_modified) =>
        /\ RangeAbsent => R.status = OK /\ Streams(file.md.len, 0)
        /\ RangeParsed =>
               /\ R.kind = "response"
               /\ Streams(FirstRange.length, FirstRange.start)
               /\ R.headers.content_range =
                      Some(content_range(
                          Some(<<FirstRange.start,
                                 FirstRange.start + FirstRange.length - 1>>),
                          file.md.len))
               /\ R.encoding = Some("identity")
               /\ R.status \in {OK, PARTIAL_CONTENT}
               /\ R.status = PARTIAL_CONTENT
                      <=> (FirstRange.start # 0
                              \/ FirstRange.length # file.md.len)

C7_AnyMatch ==
    CASE req.if_match.kind \in {"absent", "any"} -> TRUE
      [] req.if_match.kind = "items" ->
            /\ HasEtag
            /\ \E i \in DOMAIN req.if_match.items :
                   /\ ~req.if_match.items[i].weak
                   /\ req.if_match.items[i].tag = own_tag(file)

C8_ValidatorOff ==
    /\ (Responded /\ ~HasEtag) =>
           /\ R.headers.etag = None
           /\ req.if_none_match.kind = "items" => ~Bodiless(NOT_MODIFIED)
           /\ (DefaultStatus /\ req.if_match.kind = "items")
                  => locals.precondition_failed
    /\ (Responded /\ ~HasLastModified) =>
           /\ R.headers.last_modified = None
           /\ SameResponseFor(WithoutDates)

C8_Witness ==
    /\ Responded /\ DefaultStatus
    /\ ETAG \notin file.flags /\ is_some(file.modified)
    /\ LAST_MD \notin file.flags
    /\ req.if_none_match =
           Items(<<EntityTag_strong(OtherTag), EntityTag_weak(own_tag(file))>>)
    /\ req.if_match = Absent /\ RangeAbsent
    /\ is_some(req.if_modified_since) /\ is_some(req.if_unmodified_since)
    /\ ModifiedSecs > unwrap(req.if_unmodified_since).secs
    /\ R.status = OK /\ ~NoBody

(***************************************************************************)
(* C9 as claimed.  A 400 or 416 from Range evaluation carries none of the  *)
(* headers written before it: only Content-Range on a 416, nothing on a    *)
(* 400.                                                                    *)
(***************************************************************************)
C9_HeadersDiscarded ==
    (Responded /\ DefaultStatus /\ (RangeNotText \/ RangeUnsatisfiable)) =>
        /\ R.encoding = None
        /\ R.headers =
               [NoHeaders EXCEPT !.content_range =
                    IF RangeUnsatisfiable
                    THEN Some(content_range(None, file.md.len)) ELSE None]

(***************************************************************************)
(* C9 as amended.  A 400 or 416 from Range evaluation is finished from the *)
(* builder the headers were written to: it keeps Content-Type,             *)
(* Content-Disposition, the content encoding, Last-Modified, ETag and      *)
(* Accept-Ranges as written; the 416 adds Content-Range bytes * / total,   *)
(* the 400 adds nothing; neither has a body.                               *)
(***************************************************************************)
C9_HeadersKept ==
    (Responded /\ DefaultStatus /\ (RangeNotText \/ RangeUnsatisfiable)) =>
        /\ NoBody
        /\ R.encoding = file.encoding
        /\ R.headers =
               [WrittenHeaders EXCEPT !.content_range =
                    IF RangeUnsatisfiable
                    THEN Some(content_range(None, file.md.len)) ELSE None]

C9_Witness ==
    /\ Responded /\ DefaultStatus /\ RangeUnsatisfiable
    /\ HasEtag /\ HasLastModified /\ is_some(file.encoding)
    /\ Bodiless(RANGE_NOT_SATISFIABLE)
    /\ R.headers.etag # None

(***************************************************************************)
(* C10.  Whenever the Range header parses, the end of the Content-Range,   *)
(* start + length - 1, is computed without underflow and lies between      *)
(* start and total - 1: no zero-length window, no wrapped Content-Range.   *)
(***************************************************************************)
C10_ContentRangeEnd ==
    (Responded /\ DefaultStatus /\ RangeParsed) =>
        /\ R.kind = "response"
        /\ FirstRange.length > 0
        /\ R.headers.content_range.range =
               Some(<<FirstRange.start,
                      FirstRange.start + FirstRange.length - 1>>)
        /\ FirstRange.start <= FirstRange.start + FirstRange.length - 1
        /\ FirstRange.start + FirstRange.length - 1 <= file.md.len - 1

====
